---------------------------- MODULE Spec2Model ----------------------------
(***************************************************************************)
(* Model of src/src/web.rs: the three axum handlers of the spreadsheet     *)
(* backend.                                                                *)
(*                                                                         *)
(*   upload_file     (web.rs 165-219)  write, register, validate, rollback *)
(*   get_header_row  (web.rs 110-163)  first row of the first sheet        *)
(*   JobDetails::try_from (web.rs 60-102)  the job-configuration parser    *)
(*                                                                         *)
(* Option<T> values are sequences of length 0 (None) or 1 (Some).          *)
(* The datasource (crate::data, not part of web.rs) is modelled from its   *)
(* description: a store of id -> path records, ids given in order.         *)
(***************************************************************************)
EXTENDS Integers, Sequences, FiniteSets, TLC

VARIABLES
    fs,         \* the upload directory's files: content at each path
    dir_exists, \* whether the upload directory exists
    ds,         \* the datasource: record i is the FileEntry with id i
    up,         \* per request slot, the locals of an upload_file call
    hdr,        \* the locals of a get_header_row call
    job,      \* locals of JobDetails::try_from: pc, file_id, contraction_file,
              \* search_terms, check_date, search_t_counter, result
    value     \* the Multipart of try_from as consumed so far: got[n] is the
              \* bodies of the fields named n in arrival order, end is how
              \* next_field() stopped ("open", "eof" or "error")

vars == <<fs, dir_exists, ds, up, hdr, job, value>>

None == <<>>
Some(x) == <<x>>

(***************************************************************************)
(* Workbooks and cells (calamine, as used by web.rs 119-157 and 213)       *)
(***************************************************************************)
\* calamine::DataType, one constructor per variant matched at web.rs 142-151.
\* A float is m / 10^k.
StringCell(s) == [t |-> "String", s |-> s]
IntCell(i) == [t |-> "Int", i |-> i]
FloatCell(m, k) == [t |-> "Float", f |-> [m |-> m, k |-> k]]
BoolCell(b) == [t |-> "Bool", b |-> b]
DateTimeCell(m, k) == [t |-> "DateTime", d |-> [m |-> m, k |-> k]]
DurationCell(m, k) == [t |-> "Duration", d |-> [m |-> m, k |-> k]]
DateTimeIsoCell(s) == [t |-> "DateTimeIso", dt |-> s]
DurationIsoCell(s) == [t |-> "DurationIso", dt |-> s]
ErrorCell(e) == [t |-> "Error", e |-> e]
EmptyCell == [t |-> "Empty"]

DigitText(d) ==
    CASE d = 0 -> "0" [] d = 1 -> "1" [] d = 2 -> "2" [] d = 3 -> "3" [] d = 4 -> "4"
      [] d = 5 -> "5" [] d = 6 -> "6" [] d = 7 -> "7" [] d = 8 -> "8" [] d = 9 -> "9"

RECURSIVE NatToString(_)
NatToString(n) ==
    IF n < 10 THEN DigitText(n) ELSE NatToString(n \div 10) \o DigitText(n % 10)

\* i64::to_string
IntToString(i) == IF i < 0 THEN "-" \o NatToString(0 - i) ELSE NatToString(i)

RECURSIVE Pow10(_)
Pow10(k) == IF k = 0 THEN 1 ELSE 10 * Pow10(k - 1)

\* n as exactly k decimal digits, zero-padded on the left.
RECURSIVE PadDigits(_, _)
PadDigits(n, k) == IF k = 0 THEN "" ELSE PadDigits(n \div 10, k - 1) \o DigitText(n % 10)

\* f64::to_string of m / 10^k: no exponent, no trailing zeros, no ".0".
RECURSIVE FloatToString(_)
FloatToString(f) ==
    IF f.k > 0 /\ f.m % 10 = 0
    THEN FloatToString([m |-> f.m \div 10, k |-> f.k - 1])
    ELSE IF f.k = 0
         THEN IntToString(f.m)
         ELSE LET a == IF f.m < 0 THEN 0 - f.m ELSE f.m
              IN  (IF f.m < 0 THEN "-" ELSE "")
                  \o NatToString(a \div Pow10(f.k)) \o "." \o PadDigits(a % Pow10(f.k), f.k)

\* bool::to_string
BoolToString(b) == IF b THEN "true" ELSE "false"

\* Display of calamine::CellErrorType
CellErrorToString(e) ==
    CASE e = "Div0" -> "#DIV/0!"
      [] e = "NA" -> "#N/A"
      [] e = "Name" -> "#NAME?"
      [] e = "Null" -> "#NULL!"
      [] e = "Num" -> "#NUM!"
      [] e = "Ref" -> "#REF!"
      [] e = "Value" -> "#VALUE!"
      [] e = "GettingData" -> "#DATA!"

\* web.rs 141-152: the string pushed for one cell.
CellToString(c) ==
    CASE c.t = "String" -> c.s
      [] c.t = "Int" -> IntToString(c.i)
      [] c.t = "Float" -> FloatToString(c.f)
      [] c.t = "Bool" -> BoolToString(c.b)
      [] c.t = "DateTime" -> FloatToString(c.d)
      [] c.t = "Duration" -> FloatToString(c.d)
      [] c.t = "DateTimeIso" -> c.dt
      [] c.t = "DurationIso" -> c.dt
      [] c.t = "Error" -> CellErrorToString(c.e)
      [] c.t = "Empty" -> ""

\* Mutant of RowToStrings: empty cells are left out.
RECURSIVE RowToStringsSkipEmpty(_)
RowToStringsSkipEmpty(r) ==
    IF r = <<>> THEN <<>>
    ELSE (IF Head(r).t = "Empty" THEN <<>> ELSE <<CellToString(Head(r))>>)
         \o RowToStringsSkipEmpty(Tail(r))

\* web.rs 139-155: the closure of flat_map, one pushed string per cell of r.
RECURSIVE RowToStrings(_)
RowToStrings(r) ==
    IF r = <<>> THEN <<>> ELSE <<CellToString(Head(r))>> \o RowToStrings(Tail(r))

\* Mutant of Take1: take(1) is left out.
TakeAll(rows) == rows

\* Iterator::take(1)
Take1(rows) == IF rows = <<>> THEN <<>> ELSE <<Head(rows)>>

\* Iterator::flat_map(f).collect() over rows, f = RowToStrings.
RECURSIVE FlatMapRows(_)
FlatMapRows(rows) ==
    IF rows = <<>> THEN <<>> ELSE RowToStrings(Head(rows)) \o FlatMapRows(Tail(rows))

\* Mutant of HeaderStrings: a sheet without rows gets one blank header.
HeaderStringsBlankWhenEmpty(rows_data) ==
    IF rows_data = <<>> THEN <<"">> ELSE FlatMapRows(Take1(rows_data))

\* web.rs 135-157
HeaderStrings(rows_data) == FlatMapRows(Take1(rows_data))

\* File contents.  A workbook is its list of sheets; a sheet is its range of
\* rows, or unreadable (worksheet_range_at gives Some(Err)).
NoFile == [kind |-> "absent"]
Junk == [kind |-> "junk"]
Truncated == [kind |-> "truncated"]
Workbook(sheets) == [kind |-> "workbook", sheets |-> sheets]
Sheet(rows) == [readable |-> TRUE, rows |-> rows]
BadSheet == [readable |-> FALSE]

WbNames ==
    Workbook(<<Sheet(<<
        <<StringCell("Name"), StringCell("Age"), StringCell("Active")>>,
        <<StringCell("Ann"), IntCell(31), BoolCell(TRUE)>> >>)>>)
WbMixed ==
    Workbook(<<Sheet(<<
        <<StringCell("id"), IntCell(-40), FloatCell(1250, 3), BoolCell(FALSE),
          DateTimeCell(450005, 1), DurationCell(5, 1), DateTimeIsoCell("2023-01-02T03:04:05"),
          DurationIsoCell("PT1H"), ErrorCell("Div0"), EmptyCell>> >>),
      Sheet(<< <<StringCell("second sheet")>> >>)>>)
WbEmptySheet == Workbook(<<Sheet(<<>>)>>)
WbNoSheets == Workbook(<<>>)
WbBadSheet == Workbook(<<BadSheet>>)

Workbooks == {WbNames, WbMixed, WbEmptySheet, WbNoSheets, WbBadSheet}
\* Bodies an uploaded file part is sent with.
Blobs == Workbooks \cup {Junk}

\* calamine::open_workbook_auto on the content found at a path.
OpenWorkbookAuto(content) ==
    IF content.kind = "workbook"
    THEN [ok |-> TRUE, wb |-> content]
    ELSE [ok |-> FALSE]

\* Reader::worksheet_range_at(0): None, Some(Err) or Some(Ok(range)).
WorksheetRangeAt0(wb) ==
    IF wb.sheets = <<>> THEN None ELSE Some(wb.sheets[1])

(***************************************************************************)
(* upload_file (web.rs 165-219)                                            *)
(***************************************************************************)
\* Bounds of the model: datasource records ever created, uploads in flight
\* at once, parts that follow the first part of an upload request.
MaxEntries == 2
NumUploads == 2
MaxTail == 1

Slots == 1..NumUploads

FileNames == {"a.xlsx", "b.xlsx"}

\* web.rs 190, 194: PathBuf::from(".\\data") with the file name pushed.
DataDir == ".\\data"
FilePath(fname) == <<DataDir, fname>>
Paths == {FilePath(f) : f \in FileNames}
\* web.rs 210: file_path.to_string_lossy().to_string()
PathToString(path) == path[1] \o "/" \o path[2]

\* One element of the part stream of an upload request: a part with its
\* file name and body, and the read that fails on it, if any
\* ("next_field": the part cannot be fetched; "bytes": its body cannot).
Part(file_name, body, fault) == [file_name |-> file_name, body |-> body, fault |-> fault]

TextPart == Part(None, Junk, "none")
\* File parts: every body under one name, a workbook and a non-workbook
\* under the other.
FileParts ==
    {Part(Some("a.xlsx"), b, "none") : b \in Blobs}
    \cup {Part(Some("b.xlsx"), b, "none") : b \in {WbNames, Junk}}
FirstParts ==
    FileParts
    \cup {TextPart, Part(None, Junk, "next_field")}
    \cup {Part(Some(f), Junk, "bytes") : f \in FileNames}
\* Parts sent after the first one.
LaterParts == {Part(Some("b.xlsx"), WbNames, "none")}

RECURSIVE SeqsUpTo(_, _)
SeqsUpTo(S, n) ==
    IF n = 0 THEN {<<>>}
    ELSE LET shorter == SeqsUpTo(S, n - 1)
         IN  shorter \cup {Append(q, x) : q \in shorter, x \in S}

UploadRequests ==
    {<<>>} \cup {<<first>> \o rest : first \in FirstParts, rest \in SeqsUpTo(LaterParts, MaxTail)}

\* Requests sent while other uploads are being served: one file part each,
\* all under the same file name.
ConcurrentRequests ==
    {<<Part(Some("a.xlsx"), b, "none")>> : b \in {WbNames, WbMixed, Junk}}

\* The filesystem, the datasource and the upload directory as one value.
World == [fs |-> fs, ds |-> ds, dir |-> dir_exists]

\* Locals of upload_file at its entry (web.rs 165-168).
\* request is the request as sent, multipart its unread rest; opened is the
\* content open_workbook_auto read at web.rs 213; removed is whether
\* remove_file deleted the file.
UploadLocals(request) ==
    [pc |-> "next_field", request |-> request, multipart |-> request, field |-> None,
     fname |-> "", bytes |-> NoFile, file_path |-> <<>>, id |-> 0, opened |-> NoFile,
     removed |-> FALSE, result |-> [kind |-> "none"]]

Return(l, w, result) == [l |-> [l EXCEPT !.pc = "done", !.result = result], w |-> w]
Goto(l, w, pc) == [l |-> [l EXCEPT !.pc = pc], w |-> w]

\* Mutant of NextFieldStep: parts without a file name are skipped until a
\* file part is found.
RECURSIVE NextFieldStepSkipText(_, _)
NextFieldStepSkipText(l, w) ==
    IF l.multipart = <<>>
    THEN Return(l, w, [kind |-> "NoFileUploaded"])
    ELSE LET part == Head(l.multipart)
             rest == Tail(l.multipart)
         IN  IF part.fault = "next_field"
             THEN Return([l EXCEPT !.multipart = rest], w, [kind |-> "MultipartFormError"])
             ELSE IF part.file_name = None
                  THEN NextFieldStepSkipText([l EXCEPT !.multipart = rest], w)
                  ELSE Goto([l EXCEPT !.multipart = rest, !.field = Some(part),
                                      !.fname = part.file_name[1]], w, "bytes")

\* web.rs 169-187: fetch the first part and its file name.
NextFieldStep(l, w) ==
    IF l.multipart = <<>>
    THEN Return(l, w, [kind |-> "NoFileUploaded"])
    ELSE LET part == Head(l.multipart)
             rest == Tail(l.multipart)
         IN  IF part.fault = "next_field"
             THEN Return([l EXCEPT !.multipart = rest], w, [kind |-> "MultipartFormError"])
             ELSE IF part.file_name = None
                  THEN Return([l EXCEPT !.multipart = rest, !.field = Some(part)], w,
                              [kind |-> "NoFileUploaded"])
                  ELSE Goto([l EXCEPT !.multipart = rest, !.field = Some(part),
                                      !.fname = part.file_name[1]], w, "bytes")

\* Mutant of BytesStep: the bytes kept are those of the last part sent.
BytesStepLastPart(l, w) ==
    IF l.field[1].fault = "bytes"
    THEN Return(l, w, [kind |-> "panic"])
    ELSE Goto([l EXCEPT !.bytes = l.request[Len(l.request)].body], w, "create_dir")

\* web.rs 188: field.bytes().await.unwrap()
BytesStep(l, w) ==
    IF l.field[1].fault = "bytes"
    THEN Return(l, w, [kind |-> "panic"])
    ELSE Goto([l EXCEPT !.bytes = l.field[1].body], w, "create_dir")

\* Mutant of CreateDirStep: when a file already exists under the file name,
\* the upload is stored under a path that holds no file, if there is one.
CreateDirStepFreshName(l, w, created) ==
    LET free == {p \in Paths : w.fs[p] = NoFile}
        path == IF w.fs[FilePath(l.fname)] # NoFile /\ free # {}
                THEN CHOOSE p \in free : TRUE
                ELSE FilePath(l.fname)
    IN  Goto([l EXCEPT !.file_path = path],
             [w EXCEPT !.dir = w.dir \/ created], "write")

\* web.rs 190-194: create the directory when absent (its failure is
\* ignored), then push the file name.
CreateDirStep(l, w, created) ==
    Goto([l EXCEPT !.file_path = FilePath(l.fname)],
         [w EXCEPT !.dir = w.dir \/ created], "write")

\* What fs::write can do: write all the bytes, fail before creating the
\* file, or fail after creating (truncating) it.
WriteOutcomes == {"written", "not_created", "truncated"}

\* Mutant of WriteStep: the error carries the path instead of the file name.
WriteStepReportsPath(l, w, outcome) ==
    IF w.dir /\ outcome = "written"
    THEN Goto(l, [w EXCEPT !.fs[l.file_path] = l.bytes], "register")
    ELSE IF w.dir /\ outcome = "truncated"
         THEN Return(l, [w EXCEPT !.fs[l.file_path] = Truncated],
                     [kind |-> "WritingToDisk", fname |-> PathToString(l.file_path)])
         ELSE Return(l, w, [kind |-> "WritingToDisk", fname |-> PathToString(l.file_path)])

\* web.rs 196-200
WriteStep(l, w, outcome) ==
    IF w.dir /\ outcome = "written"
    THEN Goto(l, [w EXCEPT !.fs[l.file_path] = l.bytes], "register")
    ELSE IF w.dir /\ outcome = "truncated"
         THEN Return(l, [w EXCEPT !.fs[l.file_path] = Truncated],
                     [kind |-> "WritingToDisk", fname |-> l.fname])
         ELSE Return(l, w, [kind |-> "WritingToDisk", fname |-> l.fname])

\* DataSource::add_file_entry: the record gets the next id.
AddFileEntry(records, path) == Append(records, [file_path |-> path])

\* web.rs 202-206
RegisterStep(l, w, stored) ==
    IF stored
    THEN LET records == AddFileEntry(w.ds, l.file_path)
         IN  Goto([l EXCEPT !.id = Len(records)], [w EXCEPT !.ds = records], "validate")
    ELSE Return(l, w, [kind |-> "DatasourceError"])

\* Mutant of ValidateStep: the result of open_workbook_auto is ignored.
ValidateStepUnchecked(l, w) ==
    Return([l EXCEPT !.opened = w.fs[l.file_path]], w,
           [kind |-> "Ok", id |-> l.id, file_path |-> PathToString(l.file_path)])

\* web.rs 208-213, 218: re-open the stored file as a workbook.
ValidateStep(l, w) ==
    LET read == [l EXCEPT !.opened = w.fs[l.file_path]]
    IN  IF OpenWorkbookAuto(w.fs[l.file_path]).ok
        THEN Return(read, w,
                    [kind |-> "Ok", id |-> l.id, file_path |-> PathToString(l.file_path)])
        ELSE Goto(read, w, "remove_file")

\* Mutant of RemoveFileStep: the record the upload created is rolled back
\* with the file.
RemoveFileStepRollback(l, w, deleted) ==
    LET kept == [w EXCEPT !.ds = SubSeq(w.ds, 1, l.id - 1)]
    IN  IF deleted /\ w.fs[l.file_path] # NoFile
        THEN Return([l EXCEPT !.removed = TRUE], [kept EXCEPT !.fs[l.file_path] = NoFile],
                    [kind |-> "InValidExcelFile"])
        ELSE Return(l, kept, [kind |-> "InValidExcelFile"])

\* web.rs 214-215: best-effort deletion, then the error.
RemoveFileStep(l, w, deleted) ==
    IF deleted /\ w.fs[l.file_path] # NoFile
    THEN Return([l EXCEPT !.removed = TRUE], [w EXCEPT !.fs[l.file_path] = NoFile],
                [kind |-> "InValidExcelFile"])
    ELSE Return(l, w, [kind |-> "InValidExcelFile"])

\* The outcomes of the fallible calls of one upload_file call.
Env ==
    [created : BOOLEAN, outcome : WriteOutcomes, stored : BOOLEAN, deleted : BOOLEAN]

\* The outcomes of the one call pending at pc; the calls not made at pc are
\* given a fixed outcome.
EnvAt(pc) ==
    {e \in Env : /\ pc # "create_dir" => e.created
                 /\ pc # "write" => e.outcome = "written"
                 /\ pc # "register" => e.stored
                 /\ pc # "remove_file" => e.deleted}

\* The step upload_file takes from s = [l, w] between two await points.
UploadStepOf(s, e) ==
    CASE s.l.pc = "next_field" -> NextFieldStep(s.l, s.w)
      [] s.l.pc = "bytes" -> BytesStep(s.l, s.w)
      [] s.l.pc = "create_dir" -> CreateDirStep(s.l, s.w, e.created)
      [] s.l.pc = "write" -> WriteStep(s.l, s.w, e.outcome)
      [] s.l.pc = "register" -> RegisterStep(s.l, s.w, e.stored)
      [] s.l.pc = "validate" -> ValidateStep(s.l, s.w)
      [] s.l.pc = "remove_file" -> RemoveFileStep(s.l, s.w, e.deleted)

\* The await points of upload_file (web.rs 169, 188, 192, 196, 204, 214):
\* the points at which the future of a call can be dropped.  Validation
\* (213) is a synchronous call.
SuspensionPoints == {"next_field", "bytes", "create_dir", "write", "register", "remove_file"}

\* The call is dropped while the operation it awaits is pending.  The
\* operation itself still ends in one of its outcomes (tokio::fs hands the
\* filesystem calls to the blocking pool, which runs them to their end; the
\* datasource may or may not have stored the record); the handler does not
\* resume, and no response is produced.
CancelStep(l, w, e) ==
    LET s == UploadStepOf([l |-> l, w |-> w], e)
    IN  [l |-> [s.l EXCEPT !.pc = "cancelled", !.result = [kind |-> "none"]], w |-> s.w]

\* Whether upload_file, continued from s with no other request interleaved,
\* reaches the call of add_file_entry (web.rs 202).
RECURSIVE CallsDatasource(_, _)
CallsDatasource(s, e) ==
    IF s.l.pc = "done" THEN FALSE
    ELSE s.l.pc = "register" \/ CallsDatasource(UploadStepOf(s, e), e)

\* upload_file run from entry to return with no other request interleaved.
RECURSIVE RunFrom(_, _)
RunFrom(s, e) == IF s.l.pc = "done" THEN s ELSE RunFrom(UploadStepOf(s, e), e)

RunUpload(request, w, e) == RunFrom([l |-> UploadLocals(request), w |-> w], e)

(***************************************************************************)
(* get_header_row (web.rs 110-163)                                         *)
(***************************************************************************)
HeaderLocals(id) ==
    [pc |-> "get_file_entry", id |-> id, entry |-> None, result |-> [kind |-> "none"]]

\* DataSource::get_file_entry: the record with this id, or an error.
GetFileEntry(records, id) ==
    IF id \in DOMAIN records
    THEN Some([id |-> id, file_path |-> records[id].file_path])
    ELSE None

\* web.rs 114-117
GetFileEntryStep(h, w) ==
    LET r == GetFileEntry(w.ds, h.id)
    IN  IF r = None
        THEN [h EXCEPT !.pc = "done", !.result = [kind |-> "DatabaseOperationFailed"]]
        ELSE [h EXCEPT !.pc = "open_workbook", !.entry = r]

\* Mutant of ReadHeaderStep: a file that cannot be opened is answered with
\* no rows.
ReadHeaderStepMissingAsEmpty(h, w) ==
    LET workbook == OpenWorkbookAuto(w.fs[h.entry[1].file_path])
        first_sheet == WorksheetRangeAt0(workbook.wb)
        done(result) == [h EXCEPT !.pc = "done", !.result = result]
    IN  IF ~workbook.ok
        THEN done([kind |-> "Ok", rows |-> <<>>])
        ELSE IF first_sheet = None
             THEN done([kind |-> "Generic", detail |-> "No sheet found in excel file"])
             ELSE IF ~first_sheet[1].readable
                  THEN done([kind |-> "Generic", detail |-> "range error"])
                  ELSE done([kind |-> "Ok", rows |-> HeaderStrings(first_sheet[1].rows)])

\* web.rs 119-162
ReadHeaderStep(h, w) ==
    LET workbook == OpenWorkbookAuto(w.fs[h.entry[1].file_path])
        first_sheet == WorksheetRangeAt0(workbook.wb)
        done(result) == [h EXCEPT !.pc = "done", !.result = result]
    IN  IF ~workbook.ok
        THEN done([kind |-> "IOError"])
        ELSE IF first_sheet = None
             THEN done([kind |-> "Generic", detail |-> "No sheet found in excel file"])
             ELSE IF ~first_sheet[1].readable
                  THEN done([kind |-> "Generic", detail |-> "range error"])
                  ELSE done([kind |-> "Ok", rows |-> HeaderStrings(first_sheet[1].rows)])

(***************************************************************************)
(* JobDetails (web.rs 30-103)                                              *)
(***************************************************************************)
FILE_ID_FIELD_N == "fileId"
CONTRACTION_F_FIELD_N == "contractionFile"
SEARCH_TERMS_FIELD_N == "searchTerms"
CHECK_DATE_FIELD_N == "checkDate"
SEARCH_TERM_COUNTER_LIMIT == 5

\* Bound of the model: fields one job request carries.
MaxFields == 7

\* field.name() of a part that has no name.
NoName == "<no name>"
\* A field name none of the match arms of web.rs 74-88 names.
OtherName == "comment"
\* The body of a field whose bytes()/text() read fails.
BadBody == "<read error>"

FieldNames ==
    {FILE_ID_FIELD_N, CONTRACTION_F_FIELD_N, SEARCH_TERMS_FIELD_N,
     CHECK_DATE_FIELD_N, OtherName, NoName}

\* Bodies a field of each name is sent with.
FieldBodies(n) ==
    CASE n = FILE_ID_FIELD_N -> {"id1", "id2"}
      [] n = CONTRACTION_F_FIELD_N -> {"c1", "c2", BadBody}
      [] n = SEARCH_TERMS_FIELD_N -> {"t1", "t2", BadBody}
      [] n = CHECK_DATE_FIELD_N -> {"", "on"}
      [] OTHER -> {"x"}

JobFields == UNION {{[name |-> n, body |-> b] : b \in FieldBodies(n)} : n \in FieldNames}

\* Vec::insert(index, element): panics when index > len.
VecInsert(v, index, element) ==
    IF index > Len(v)
    THEN [panic |-> TRUE, vec |-> v]
    ELSE [panic |-> FALSE,
          vec |-> SubSeq(v, 1, index) \o <<element>> \o SubSeq(v, index + 1, Len(v))]

\* web.rs 61-66: the locals before the loop.
JobLocals ==
    [pc |-> "loop", file_id |-> None, contraction_file |-> None,
     search_terms |-> <<>>, check_date |-> FALSE, search_t_counter |-> 0,
     result |-> [kind |-> "none"]]

JobFail(j, kind) == [j EXCEPT !.pc = "done", !.result = [kind |-> kind]]

\* web.rs 74-75: the fileId arm stores the matched name.
FileIdArm(j, field) == [j EXCEPT !.file_id = Some(field.name)]

\* Mutant of ContractionArm: only the first contractionFile field is kept.
ContractionArmKeepFirst(j, field) ==
    IF field.body = BadBody
    THEN JobFail(j, "MultipartFormError")
    ELSE IF j.contraction_file = None
         THEN [j EXCEPT !.contraction_file = Some(field.body)]
         ELSE j

\* web.rs 76-79
ContractionArm(j, field) ==
    IF field.body = BadBody
    THEN JobFail(j, "MultipartFormError")
    ELSE [j EXCEPT !.contraction_file = Some(field.body)]

\* Mutant of SearchTermsArm: the limit test is <= instead of <.
SearchTermsArmOffByOne(j, field) ==
    IF j.search_t_counter <= SEARCH_TERM_COUNTER_LIMIT
    THEN IF field.body = BadBody
         THEN JobFail(j, "MultipartFormError")
         ELSE [j EXCEPT !.search_terms = Append(j.search_terms, field.body),
                        !.search_t_counter = j.search_t_counter + 1]
    ELSE j

\* web.rs 80-86
SearchTermsArm(j, field) ==
    IF j.search_t_counter < SEARCH_TERM_COUNTER_LIMIT
    THEN IF field.body = BadBody
         THEN JobFail(j, "MultipartFormError")
         ELSE LET ins == VecInsert(j.search_terms, j.search_t_counter, field.body)
              IN  IF ins.panic
                  THEN JobFail(j, "panic")
                  ELSE [j EXCEPT !.search_terms = ins.vec,
                                 !.search_t_counter = j.search_t_counter + 1]
    ELSE j

\* Mutant of CheckDateArm: the flag follows the field's content.
CheckDateArmByContent(j, field) == [j EXCEPT !.check_date = (field.body # "")]

\* Mutant of CheckDateArm: the flag is set only while no search term has
\* been read.
CheckDateArmBeforeTerms(j, field) ==
    [j EXCEPT !.check_date = j.check_date \/ (j.search_t_counter = 0)]

\* web.rs 87
CheckDateArm(j, field) == [j EXCEPT !.check_date = TRUE]

\* web.rs 69-89: the loop body for one delivered field.
OnField(j, field) ==
    IF field.name = NoName THEN j
    ELSE CASE field.name = FILE_ID_FIELD_N -> FileIdArm(j, field)
           [] field.name = CONTRACTION_F_FIELD_N -> ContractionArm(j, field)
           [] field.name = SEARCH_TERMS_FIELD_N -> SearchTermsArm(j, field)
           [] field.name = CHECK_DATE_FIELD_N -> CheckDateArm(j, field)
           [] OTHER -> j

\* Mutant of OnEnd: a missing fileId defaults to the empty string.
OnEndDefaultId(j) ==
    [j EXCEPT !.pc = "done",
              !.result = [kind |-> "Ok",
                          file_id |-> IF j.file_id = None THEN "" ELSE j.file_id[1],
                          contraction_file |-> j.contraction_file,
                          check_date |-> j.check_date,
                          search_terms |-> j.search_terms]]

\* web.rs 91-101: after the loop.
OnEnd(j) ==
    IF j.file_id = None
    THEN JobFail(j, "MultipartFormError")
    ELSE [j EXCEPT !.pc = "done",
                   !.result = [kind |-> "Ok",
                               file_id |-> j.file_id[1],
                               contraction_file |-> j.contraction_file,
                               check_date |-> j.check_date,
                               search_terms |-> j.search_terms]]

\* web.rs 68-90: one turn of the loop; a `?` that returned ends it.
JobStep(j, field) == IF j.pc = "done" THEN j ELSE OnField(j, field)

\* try_from continued from locals j on the fields that are still to come,
\* all of them delivered.
RECURSIVE ParseFrom(_, _)
ParseFrom(j, fields) ==
    IF fields = <<>>
    THEN IF j.pc = "done" THEN j ELSE OnEnd(j)
    ELSE ParseFrom(JobStep(j, Head(fields)), Tail(fields))

NoFields == [got |-> [n \in FieldNames |-> <<>>], end |-> "open"]

FieldCount ==
    Len(value.got[FILE_ID_FIELD_N]) + Len(value.got[CONTRACTION_F_FIELD_N])
    + Len(value.got[SEARCH_TERMS_FIELD_N]) + Len(value.got[CHECK_DATE_FIELD_N])
    + Len(value.got[OtherName]) + Len(value.got[NoName])

uvars == <<fs, dir_exists, ds, up, hdr>>
jvars == <<job, value>>

Init ==
    /\ fs = [p \in Paths |-> NoFile]
    /\ dir_exists = FALSE
    /\ ds = <<>>
    /\ up = [u \in Slots |-> [UploadLocals(<<>>) EXCEPT !.pc = "idle"]]
    /\ hdr = [pc |-> "idle", id |-> 0, entry |-> None, result |-> [kind |-> "none"]]
    /\ job = [JobLocals EXCEPT !.pc = "idle"]
    /\ value = NoFields

\* run_job (web.rs 105-106) calls try_from on a fresh request.
RunJob ==
    /\ job.pc \in {"idle", "done"}
    /\ job' = JobLocals
    /\ value' = NoFields
    /\ UNCHANGED uvars

\* web.rs 68: next_field() delivers a field, and the loop body runs.
JobNextField ==
    /\ job.pc = "loop"
    /\ \E field \in JobFields :
         /\ FieldCount < MaxFields
         /\ job' = OnField(job, field)
         /\ value' = [value EXCEPT !.got[field.name] = Append(@, field.body),
                                   !.end = IF job'.pc = "done" THEN "error" ELSE "open"]
    /\ UNCHANGED uvars

\* web.rs 68: next_field() fails, and `?` returns the error.
JobStreamError ==
    /\ job.pc = "loop"
    /\ job' = JobFail(job, "MultipartFormError")
    /\ value' = [value EXCEPT !.end = "error"]
    /\ UNCHANGED uvars

\* web.rs 68, 91-101: next_field() returns None.
JobEnd ==
    /\ job.pc = "loop"
    /\ job' = OnEnd(job)
    /\ value' = [value EXCEPT !.end = "eof"]
    /\ UNCHANGED uvars

NextJob == RunJob \/ JobNextField \/ JobStreamError \/ JobEnd

SpecJob == Init /\ [][NextJob]_vars

(***************************************************************************)
(* The upload and header requests as steps between their await points      *)
(***************************************************************************)
Running(l) == l.pc \notin {"idle", "done", "cancelled"}
InFlight == Cardinality({u \in Slots : Running(up[u])})
\* No request is being served.
Quiet == InFlight = 0 /\ ~Running(hdr)

Apply(u, s) ==
    /\ up' = [up EXCEPT ![u] = s.l]
    /\ fs' = s.w.fs
    /\ ds' = s.w.ds
    /\ dir_exists' = s.w.dir
    /\ UNCHANGED <<hdr, jvars>>

\* A client posts to /upload (web.rs 24).
UploadStart(u, requests) ==
    /\ ~Running(up[u])
    /\ Len(ds) + InFlight < MaxEntries
    /\ \E request \in requests : up' = [up EXCEPT ![u] = UploadLocals(request)]
    /\ UNCHANGED <<fs, dir_exists, ds, jvars>>

UploadNextField(u) ==
    /\ up[u].pc = "next_field"
    /\ Apply(u, NextFieldStep(up[u], World))

UploadBytes(u) ==
    /\ up[u].pc = "bytes"
    /\ Apply(u, BytesStep(up[u], World))

UploadCreateDir(u) ==
    /\ up[u].pc = "create_dir"
    /\ \E created \in BOOLEAN : Apply(u, CreateDirStep(up[u], World, created))

UploadWrite(u) ==
    /\ up[u].pc = "write"
    /\ \E outcome \in WriteOutcomes : Apply(u, WriteStep(up[u], World, outcome))

UploadRegister(u) ==
    /\ up[u].pc = "register"
    /\ \E stored \in BOOLEAN : Apply(u, RegisterStep(up[u], World, stored))

UploadValidate(u) ==
    /\ up[u].pc = "validate"
    /\ Apply(u, ValidateStep(up[u], World))

UploadRemoveFile(u) ==
    /\ up[u].pc = "remove_file"
    /\ \E deleted \in BOOLEAN : Apply(u, RemoveFileStep(up[u], World, deleted))

\* The client goes away while the call is suspended, and the transport
\* drops the call.
UploadCancel(u) ==
    /\ up[u].pc \in SuspensionPoints
    /\ \E e \in EnvAt(up[u].pc) : Apply(u, CancelStep(up[u], World, e))

UploadStep(u) ==
    \/ UploadNextField(u) \/ UploadBytes(u) \/ UploadCreateDir(u) \/ UploadWrite(u)
    \/ UploadRegister(u) \/ UploadValidate(u) \/ UploadRemoveFile(u)

\* A client posts {id} to /getHeader (web.rs 25).
HeaderStart ==
    /\ ~Running(hdr)
    /\ \E id \in 1..MaxEntries : hdr' = HeaderLocals(id)
    /\ UNCHANGED <<fs, dir_exists, ds, up, jvars>>

HeaderGetFileEntry ==
    /\ hdr.pc = "get_file_entry"
    /\ hdr' = GetFileEntryStep(hdr, World)
    /\ UNCHANGED <<fs, dir_exists, ds, up, jvars>>

HeaderRead ==
    /\ hdr.pc = "open_workbook"
    /\ hdr' = ReadHeaderStep(hdr, World)
    /\ UNCHANGED <<fs, dir_exists, ds, up, jvars>>

HeaderIdle == [HeaderLocals(0) EXCEPT !.pc = "idle"]

\* Requests served one at a time, each either to its response or until it
\* is cancelled.  The last response of each handler stays readable in its
\* locals until the next upload starts.
Next ==
    \/ Quiet /\ UploadStart(1, UploadRequests) /\ hdr' = HeaderIdle
    \/ UploadStep(1)
    \/ UploadCancel(1)
    \/ Quiet /\ HeaderStart
    \/ HeaderGetFileEntry
    \/ HeaderRead

Spec == Init /\ [][Next]_vars

\* Uploads served concurrently, up to NumUploads at once, their steps
\* interleaved in any order.
NextConc ==
    \/ \E u \in Slots : UploadStart(u, ConcurrentRequests) /\ UNCHANGED hdr
    \/ \E u \in Slots : UploadStep(u)

SpecConc == Init /\ [][NextConc]_vars

(***************************************************************************)
(* Properties of the job-configuration parser (checked under SpecJob)      *)
(***************************************************************************)
Min(a, b) == IF a < b THEN a ELSE b
FirstN(seq, n) == SubSeq(seq, 1, Min(n, Len(seq)))
Last(seq) == seq[Len(seq)]

GotFileId == value.got[FILE_ID_FIELD_N]
GotContraction == value.got[CONTRACTION_F_FIELD_N]
GotSearchTerms == value.got[SEARCH_TERMS_FIELD_N]
GotCheckDate == value.got[CHECK_DATE_FIELD_N]

JobReturned == job.pc = "done"
JobOk == job.pc = "done" /\ job.result.kind = "Ok"
\* The request was read to its end and no field read failed.
ReadToEnd == value.end = "eof"
AllReadable ==
    /\ value.end # "error"
    /\ \A n \in FieldNames : \A i \in 1..Len(value.got[n]) : value.got[n][i] # BadBody

\* C5: with a fileId field and n searchTerms fields, the parse returns the
\* texts of the first min(n, 5) searchTerms fields in arrival order; the 6th
\* and later ones (readable or not) are dropped without error; search_terms
\* never holds more than 5 entries at any step.
C5_SearchTermsBound ==
    /\ Len(job.search_terms) <= 5
    /\ (JobReturned /\ ReadToEnd /\ GotFileId # <<>>) =>
          /\ job.result.kind = "Ok"
          /\ job.result.search_terms = FirstN(GotSearchTerms, 5)

C5_Witness ==
    /\ JobOk
    /\ Len(GotSearchTerms) = 6
    /\ GotSearchTerms[1] = "t2" /\ GotSearchTerms[2] = "t1"
    /\ GotSearchTerms[6] = BadBody
    /\ Len(job.result.search_terms) = 5

\* C6: a parse of a request without a fileId field fails with
\* MultipartFormError whatever else it carries; a parse of a request with a
\* fileId field whose fields are all readable succeeds.
C6_FileIdRequired ==
    /\ (JobReturned /\ GotFileId = <<>>) => job.result.kind = "MultipartFormError"
    /\ (JobReturned /\ GotFileId # <<>> /\ AllReadable) => job.result.kind = "Ok"

C6_Witness ==
    /\ JobReturned /\ ReadToEnd
    /\ GotFileId = <<>>
    /\ \A n \in FieldNames \ {FILE_ID_FIELD_N} : value.got[n] # <<>>
    /\ job.result.kind = "MultipartFormError"

\* C7: after a successful parse, file_id is the text of the first fileId
\* field of the request.
C7_FileIdIsFirstText ==
    JobOk => job.result.file_id = GotFileId[1]

\* C8: after a successful parse, contraction_file is absent when the
\* request has no contractionFile field, else it holds the bytes of the last
\* contractionFile field; the same holds after every field while parsing.
C8_ContractionLastWins ==
    (job.pc = "loop" \/ JobOk) =>
        /\ job.contraction_file =
              IF GotContraction = <<>> THEN None ELSE Some(Last(GotContraction))
        /\ JobOk => job.result.contraction_file = job.contraction_file

C8_Witness ==
    /\ JobOk
    /\ GotContraction = <<"c1", "c2">>
    /\ job.result.contraction_file = Some("c2")

\* C9: after a successful parse, check_date is true iff at least one
\* checkDate field occurred, whatever its content; the same holds after
\* every field while parsing.
C9_CheckDatePresence ==
    (job.pc = "loop" \/ JobOk) =>
        /\ job.check_date = (GotCheckDate # <<>>)
        /\ JobOk => job.result.check_date = job.check_date

C9_Witness ==
    /\ JobOk
    /\ GotCheckDate = <<"", "on">>
    /\ job.result.check_date

(***************************************************************************)
(* Properties of upload_file and get_header_row                            *)
(***************************************************************************)
Parseable(content) == OpenWorkbookAuto(content).ok

Returned(u) == up[u].pc = "done"
\* The first part of u's request was delivered as a file part; its body
\* was read when u got past web.rs 188.
FirstIsFile(u) ==
    /\ up[u].request # <<>>
    /\ up[u].request[1].fault = "none"
    /\ up[u].request[1].file_name # None

\* C1: between requests, every datasource record references a path that
\* currently holds a file.  The claim says more of that file (it was a
\* parseable workbook when the record was registered), and its converse
\* speaks of the path of a record that does not exist; this is the part of
\* it that a state can contradict.
C1_EntryIffValidFile ==
    Quiet => \A i \in DOMAIN ds : fs[ds[i].file_path] # NoFile

\* C4: an upload of a request with zero parts, or whose first part has no
\* file name, returns NoFileUploaded, whatever parts follow the first.
C4_NoFileUploaded ==
    \A u \in Slots :
        (/\ Returned(u)
         /\ \/ up[u].request = <<>>
            \/ /\ up[u].request[1].fault # "next_field"
               /\ up[u].request[1].file_name = None)
        => up[u].result.kind = "NoFileUploaded"

C4_Witness ==
    /\ Returned(1)
    /\ up[1].request = <<TextPart, Part(Some("b.xlsx"), WbNames, "none")>>
    /\ up[1].result.kind = "NoFileUploaded"

IsStringRow(row) == \A i \in 1..Len(row) : row[i].t = "String"
StringsOf(row) == [i \in 1..Len(row) |-> row[i].s]
FirstRowIsStrings(content) ==
    /\ content.kind = "workbook"
    /\ content.sheets # <<>>
    /\ content.sheets[1].readable
    /\ content.sheets[1].rows # <<>>
    /\ IsStringRow(content.sheets[1].rows[1])

\* The last upload returned an id for a workbook whose first sheet's first
\* row is all strings, and a header request for that id has returned since,
\* with no upload in between.
HeadersAfterUpload ==
    /\ hdr.pc = "done"
    /\ Returned(1)
    /\ up[1].result.kind = "Ok"
    /\ hdr.id = up[1].result.id
    /\ FirstRowIsStrings(up[1].bytes)

\* C2: uploading a well-formed workbook whose first sheet's first row is a
\* sequence R of string cells and then requesting headers for the returned
\* id yields rows equal to R, cell by cell and in column order.
C2_RoundTrip ==
    HeadersAfterUpload =>
        hdr.result = [kind |-> "Ok", rows |-> StringsOf(up[1].bytes.sheets[1].rows[1])]

C2_Witness ==
    /\ HeadersAfterUpload
    /\ up[1].bytes = WbNames
    /\ hdr.result.kind = "Ok"
    /\ hdr.result.rows = <<"Name", "Age", "Active">>

RejectsOwnBytes ==
    \A u \in Slots :
        (/\ Returned(u)
         /\ up[u].id # 0
         /\ ~Parseable(up[u].bytes)
         /\ up[u].opened = up[u].bytes)
        => up[u].result.kind = "InValidExcelFile"

\* When the deletion of web.rs 214 succeeds, no file exists at the upload's
\* path at the moment it returns.
GoneOnReturn ==
    \A u \in Slots :
        (up[u].pc = "remove_file" /\ up'[u].pc = "done" /\ up'[u].removed)
        => fs'[up[u].file_path] = NoFile

Outcome(s) == [result |-> s.l.result, fs |-> s.w.fs, ds |-> s.w.ds, dir |-> s.w.dir]

\* C10: upload reads only the first part.  Whenever an upload starts, in
\* whatever filesystem and datasource state, then for each outcome of the
\* calls it makes it ends with the same result, the same files and the same
\* datasource records as the request made of its first part alone would,
\* started in that same state; so any two requests with the same first part
\* end alike, whatever parts follow.
C10_OnlyFirstPart ==
    (up[1].pc = "next_field" /\ up[1].request # <<>>) =>
        \A e \in Env :
            Outcome(RunFrom([l |-> up[1], w |-> World], e))
            = Outcome(RunUpload(<<up[1].request[1]>>, World, e))

C10_Witness ==
    /\ Returned(1)
    /\ up[1].request = <<Part(Some("a.xlsx"), WbMixed, "none"),
                         Part(Some("b.xlsx"), WbNames, "none")>>
    /\ up[1].result.kind = "Ok"
    /\ fs[FilePath("a.xlsx")] = WbMixed
    /\ fs[FilePath("b.xlsx")] = NoFile
    /\ Len(ds) = 1

(***************************************************************************)
(* Uploads of one file name served concurrently (checked under SpecConc)   *)
(***************************************************************************)
Registered(u) == up[u].id # 0

\* Two finished uploads that sent different bytes under the same file name
\* and both registered a record.
SameNameUploads(u, v) ==
    /\ u # v
    /\ Returned(u) /\ Returned(v)
    /\ Registered(u) /\ Registered(v)
    /\ up[u].fname = up[v].fname
    /\ up[u].bytes # up[v].bytes

\* C11: two concurrent uploads with the same file name and different
\* content can interleave so that, when both have finished, the id
\* registered first resolves to a path holding the other request's content.
\* The invariant is what makes that possible: the ids of two such uploads
\* resolve to one and the same path, so at least one of them resolves to
\* content its request did not send; the witness is the interleaving itself.
C11_SameNameSamePath ==
    \A u, v \in Slots :
        SameNameUploads(u, v) =>
            /\ ds[up[u].id].file_path = ds[up[v].id].file_path
            /\ \E x \in {u, v} : fs[ds[up[x].id].file_path] # up[x].bytes

\* u registered first and validated after v had written: both succeeded,
\* and u's id resolves to v's content.
C11_Witness ==
    \E u, v \in Slots :
        /\ SameNameUploads(u, v)
        /\ up[u].id < up[v].id
        /\ up[u].result.kind = "Ok" /\ up[v].result.kind = "Ok"
        /\ up[u].opened = up[v].bytes
        /\ fs[ds[up[u].id].file_path] = up[v].bytes

(***************************************************************************)
(* Cancelled uploads                                                       *)
(***************************************************************************)
\* No datasource record references a path that holds a partially written
\* file.
NoPartialFile == \A i \in DOMAIN ds : fs[ds[i].file_path] # Truncated

\* C12: if an upload is cancelled at one of its suspension points, then in
\* the resulting state no registered record, created by this or any earlier
\* upload, references a path holding a partially written file.  Stated of
\* the cancellation itself: from a state with no such record, it leads to
\* a state with no such record.
C12_CancelLeavesNoPartialFile ==
    [][\A u \in Slots :
          (up[u].pc \in SuspensionPoints /\ up'[u].pc = "cancelled" /\ NoPartialFile)
          => NoPartialFile']_vars

(***************************************************************************)
(* Header requests (checked under Spec)                                    *)
(***************************************************************************)
\* A header request has returned after it found the record of its id; no
\* upload has started since, so the files are those it read.
HeaderAnswered == hdr.pc = "done" /\ hdr.entry # None
HeaderFile == fs[hdr.entry[1].file_path]

\* C13: for every datasource record whose referenced file is missing (the
\* orphan of an upload that failed after registration, or a record whose
\* file a later failed upload of the same file name deleted), the header
\* request for its id ends with IOError: not with rows, not with another
\* error kind, and (the result being a response) not in a panic.
C13_MissingFileIsIOError ==
    (HeaderAnswered /\ HeaderFile = NoFile) => hdr.result = [kind |-> "IOError"]

\* The record of a valid upload, its file deleted by a later failed upload
\* of the same file name.
C13_Witness ==
    /\ HeaderAnswered
    /\ Len(ds) = 2
    /\ hdr.id = 1
    /\ ds[1].file_path = ds[2].file_path
    /\ up[1].id = 2
    /\ up[1].result.kind = "InValidExcelFile"
    /\ HeaderFile = NoFile
    /\ hdr.result.kind = "IOError"

\* The file the header request read is a workbook whose first sheet is a
\* readable range.
HeaderSheetReadable ==
    /\ HeaderAnswered
    /\ HeaderFile.kind = "workbook"
    /\ HeaderFile.sheets # <<>>
    /\ HeaderFile.sheets[1].readable
HeaderSheetRows == HeaderFile.sheets[1].rows

\* C14: a header request on a workbook whose first sheet has zero rows
\* returns success with rows equal to the empty sequence.
C14_NoRowsNoHeaders ==
    (HeaderSheetReadable /\ HeaderSheetRows = <<>>) => hdr.result = [kind |-> "Ok", rows |-> <<>>]

C14_Witness ==
    /\ HeaderSheetReadable
    /\ HeaderFile = WbEmptySheet
    /\ up[1].result.kind = "Ok"
    /\ hdr.id = up[1].result.id
    /\ hdr.result = [kind |-> "Ok", rows |-> <<>>]

\* C15: for a first row of cells of any of the ten variants, the header
\* request succeeds with exactly one string per cell, in column order: the
\* number of strings is the number of cells, string i is the text of cell i,
\* and an empty cell gives "" in its place.
C15_OneStringPerCell ==
    (HeaderSheetReadable /\ HeaderSheetRows # <<>>) =>
        LET row == HeaderSheetRows[1]
        IN  /\ hdr.result.kind = "Ok"
            /\ Len(hdr.result.rows) = Len(row)
            /\ \A i \in 1..Len(row) :
                 /\ hdr.result.rows[i] = CellToString(row[i])
                 /\ row[i].t = "Empty" => hdr.result.rows[i] = ""

\* The first row of WbMixed has one cell of each variant, the empty one last.
C15_Witness ==
    /\ HeaderSheetReadable
    /\ HeaderFile = WbMixed
    /\ {HeaderSheetRows[1][i].t : i \in 1..Len(HeaderSheetRows[1])}
       = {"String", "Int", "Float", "Bool", "DateTime", "Duration", "DateTimeIso",
          "DurationIso", "Error", "Empty"}
    /\ hdr.result =
         [kind |-> "Ok",
          rows |-> <<"id", "-40", "1.25", "false", "45000.5", "0.5", "2023-01-02T03:04:05",
                     "PT1H", "#DIV/0!", "">>]

(***************************************************************************)
(* Field order of a job request (checked under SpecJob)                    *)
(***************************************************************************)
\* Two try_from calls stand alike: both have failed with the same error, or
\* neither has returned and their locals are equal, so that they end alike
\* on whatever fields follow.
SameOutcome(a, b) ==
    IF a.pc = "done" \/ b.pc = "done"
    THEN a.pc = b.pc /\ a.result = b.result
    ELSE a = b

FieldsNamed(n, bodies) == [i \in 1..Len(bodies) |-> [name |-> n, body |-> bodies[i]]]
\* The fields of a request, grouped by name, each group in arrival order.
Grouped(got) ==
    FieldsNamed(NoName, got[NoName]) \o FieldsNamed(OtherName, got[OtherName])
    \o FieldsNamed(CHECK_DATE_FIELD_N, got[CHECK_DATE_FIELD_N])
    \o FieldsNamed(SEARCH_TERMS_FIELD_N, got[SEARCH_TERMS_FIELD_N])
    \o FieldsNamed(CONTRACTION_F_FIELD_N, got[CONTRACTION_F_FIELD_N])
    \o FieldsNamed(FILE_ID_FIELD_N, got[FILE_ID_FIELD_N])

FieldsOf(n) == {[name |-> n, body |-> b] : b \in FieldBodies(n)}
\* The pairs of different field names, each pair once.
NameOrder ==
    <<FILE_ID_FIELD_N, CONTRACTION_F_FIELD_N, SEARCH_TERMS_FIELD_N, CHECK_DATE_FIELD_N,
      OtherName, NoName>>
DifferentNames ==
    {<<NameOrder[p[1]], NameOrder[p[2]]>> :
        p \in {q \in (1..Len(NameOrder)) \X (1..Len(NameOrder)) : q[1] < q[2]}}

\* C16: the parse result does not depend on the order of fields with
\* different names: two field sequences that are permutations of each other
\* and keep the relative order of same-name fields give the same outcome
\* (the same extracted fields, or the same failure).  Such permutations are
\* the sequences with the same fields per name; each is reached from any
\* other by exchanging neighbours of different names.  So: after any fields
\* read, two next fields of different names lead to the same standing in
\* either order; and a request read to its end gives the result of the
\* request with the same fields per name, sent grouped by name.
C16_FieldOrderIrrelevant ==
    /\ job.pc = "loop" =>
         \A pair \in DifferentNames :
             \A f \in FieldsOf(pair[1]), g \in FieldsOf(pair[2]) :
                 SameOutcome(JobStep(JobStep(job, f), g), JobStep(JobStep(job, g), f))
    /\ (job.pc = "done" /\ value.end = "eof") =>
         job.result = ParseFrom(JobLocals, Grouped(value.got)).result

\* A request read to its end with fields of four names, a contraction file
\* sent twice and search terms sent in an order of their own, and not read
\* grouped by name: the fileId arrived before the last search term.
C16_Witness ==
    /\ job.pc = "done"
    /\ value.end = "eof"
    /\ value.got[FILE_ID_FIELD_N] = <<"id1">>
    /\ value.got[CONTRACTION_F_FIELD_N] = <<"c2", "c1">>
    /\ value.got[SEARCH_TERMS_FIELD_N] = <<"t2", "t1">>
    /\ value.got[CHECK_DATE_FIELD_N] = <<"">>
    /\ job.result.kind = "Ok"
    /\ job.result.contraction_file = Some("c1")
    /\ job.result.search_terms = <<"t2", "t1">>
    /\ job.result.check_date

(***************************************************************************)
(* Failed uploads (checked under Spec)                                     *)
(***************************************************************************)
\* The upload registered a record and then found no parseable workbook at
\* its path.
FailedValidation(u) == Returned(u) /\ Registered(u) /\ ~Parseable(up[u].opened)
RecordStays(u) == up[u].id \in DOMAIN ds /\ ds[up[u].id].file_path = up[u].file_path

\* C17 as stated: an upload that is registered and then fails validation
\* returns InValidExcelFile while its record stays, referencing a path whose
\* file has been deleted.
C17_Original ==
    \A u \in Slots :
        FailedValidation(u) =>
            /\ up[u].result.kind = "InValidExcelFile"
            /\ RecordStays(u)
            /\ fs[up[u].file_path] = NoFile

FailsAndLeavesRecord ==
    \A u \in Slots :
        FailedValidation(u) =>
            /\ up[u].result.kind = "InValidExcelFile"
            /\ RecordStays(u)
            /\ up[u].removed => fs[up[u].file_path] = NoFile

\* Every record of the datasource is still there, under its id, after the
\* step.
RecordsKept == Len(ds') >= Len(ds) /\ SubSeq(ds', 1, Len(ds)) = ds

\* C17, amended: no step of an upload removes a datasource record; an upload
\* that is registered and then fails workbook validation returns
\* InValidExcelFile while its new record stays in the datasource, and when
\* the deletion of the file succeeded the record references a path that
\* holds no file.
C17_RecordOutlivesFile == []FailsAndLeavesRecord /\ [][RecordsKept]_vars

C17_Witness ==
    /\ FailedValidation(1)
    /\ up[1].bytes = Junk
    /\ up[1].result.kind = "InValidExcelFile"
    /\ up[1].id = Len(ds)
    /\ RecordStays(1)
    /\ up[1].removed
    /\ fs[ds[up[1].id].file_path] = NoFile

\* The outcomes the upload operation is specified to have: a FileEntry, or
\* one of the four failure kinds.
UploadOutcomeKinds ==
    {"Ok", "NoFileUploaded", "WritingToDisk", "InValidExcelFile", "DatasourceError"}

\* C18: every upload request ends either with a FileEntry {id, file_path} or
\* with one of NoFileUploaded, WritingToDisk, InvalidExcelFile or a
\* datasource error; no failure of reading the request (fetching the first
\* part, reading its bytes) ends in a panic or in another error kind.
C18_UploadOutcomes ==
    \A u \in Slots :
        Returned(u) =>
            /\ up[u].result.kind \in UploadOutcomeKinds
            /\ up[u].result.kind = "Ok" =>
                 up[u].result = [kind |-> "Ok", id |-> up[u].id,
                                 file_path |-> PathToString(up[u].file_path)]

\* C19: an upload that fails with NoFileUploaded or WritingToDisk never
\* calls the datasource: the records after it are the records before it;
\* and WritingToDisk carries the file name of the first part.  Stated of
\* every upload at its start, in whatever state it starts, for each outcome
\* of the calls it makes.
C19_EarlyFailuresLeaveRecords ==
    up[1].pc = "next_field" =>
        \A e \in Env :
            LET start == [l |-> up[1], w |-> World]
                end == RunFrom(start, e)
            IN  end.l.result.kind \in {"NoFileUploaded", "WritingToDisk"} =>
                    /\ ~CallsDatasource(start, e)
                    /\ end.w.ds = ds
                    /\ end.l.result.kind = "WritingToDisk" =>
                         end.l.result.fname = up[1].request[1].file_name[1]

\* A write that failed after an earlier upload had registered a record:
\* the error names the first part's file, and the record is the only one.
C19_Witness ==
    /\ Returned(1)
    /\ up[1].request = <<Part(Some("a.xlsx"), WbMixed, "none"),
                         Part(Some("b.xlsx"), WbNames, "none")>>
    /\ up[1].result = [kind |-> "WritingToDisk", fname |-> "a.xlsx"]
    /\ up[1].id = 0
    /\ Len(ds) = 1

\* C20: under any interleaving of concurrent uploads, uploads of one file
\* name included, an upload returns success only if the bytes this request
\* itself wrote were a parseable workbook, and the file it validated is
\* still present when it returns.  Stated of the step in which an upload
\* returns success.  Checked under SpecConc.
C20_SuccessMeansOwnBytesValid ==
    [][\A u \in Slots :
          (up[u].pc = "validate" /\ up'[u].pc = "done" /\ up'[u].result.kind = "Ok")
          => /\ Parseable(up[u].bytes)
             /\ fs'[up[u].file_path] # NoFile]_vars
=============================================================================
